---- MODULE Spec2Model ----
(***************************************************************************)
(* Pronounce-Pal: the lesson session store (client/stores/lessonStore.ts)  *)
(* and the lesson screen built on it (LearnScreen: extension protocol and  *)
(* audio playback).                                                        *)
(*                                                                         *)
(* The store is the module-level object globalState; every store operation *)
(* is an operator from a store value to the next store value, and the      *)
(* actions apply them.  A React handler reads the values captured by the   *)
(* last render of the component (the variable "rendered"), writes through  *)
(* the state setters, and the component re-renders in a later step.        *)
(***************************************************************************)
EXTENDS Integers, Sequences, FiniteSets, TLC

\* ------------------------------------------------------------------ bounds
MaxLessons == 2      \* lessons kept per topic key
MaxSections == 2     \* sections per lesson
MaxInFlight == 2     \* handleExtendLesson invocations awaiting a response
MaxTimers == 1       \* pending 3 s success timers
MaxVersion == 2      \* the version counter is observed up to this value
MaxPlayCalls == 1    \* play handlers awaiting the speech endpoint or the file
MaxWordCalls == 2    \* the same, when the new request is for a word
MaxTokens == 5       \* pieces in the text of a completion
MaxGenerateCalls == 2  \* generateLesson invocations awaiting a response

\* ---------------------------------------------------------------- constants
RecentLimit == 10    \* recentTopics keeps the first ten entries

\* ------------------------------------------------------------- data model
Topics == {"Travel", "travel"}

\* String.prototype.toLowerCase on the topics of the model
toLowerCase(t) == IF t = "Travel" THEN "travel" ELSE t

TopicKeys == {toLowerCase(t) : t \in Topics}

\* the strings that can be a key of the Map: a topic as it was typed or as it
\* is lowercased; a key the Map does not hold has the empty list
MapKeys == Topics \cup TopicKeys

\* ParagraphSection values: the section of a freshly generated lesson, a
\* section with a word list, and a section whose word list is empty
s1 == [paragraph |-> "p1", words |-> <<"w1">>]
s2 == [paragraph |-> "p2", words |-> <<"w2">>]
sEmptyWords == [paragraph |-> "p2", words |-> <<>>]
Sections == {s1, s2, sEmptyWords}

\* null for a Lesson
Null == [id |-> "null", topic |-> "null", sections |-> <<>>]

\* lessons handed to the store by its callers: two generated lessons whose
\* topics differ in letter case only
lessonA == [id |-> "l1", topic |-> "Travel", sections |-> <<s1>>]
lessonB == [id |-> "l2", topic |-> "travel", sections |-> <<s1>>]
InputLessons == {lessonA, lessonB}

\* topics handed to addRecentTopic: ten topics that fill the list, of which
\* two differ in letter case only, and two more
FirstTopics == <<"Travel", "travel", "Business", "Food", "Sports", "Music",
                 "Art", "Science", "Health", "Nature">>
RecentTopicNames ==
    {FirstTopics[i] : i \in 1..Len(FirstTopics)} \cup {"History", "Movies"}

\* VoiceOption values of the model
Voices == {"alloy", "echo"}

\* null for a string (error messages)
NoError == "null"
GenericExtendError == "Failed to extend lesson"
InvalidDataError == "Invalid response data - missing paragraph or words"

VARIABLES
    globalState,       \* the store
    rendered,          \* values captured by the closures of the last render
    isExtendingLocal,  \* useState of LearnScreen
    extendError,       \* useState of LearnScreen
    extendSuccess,     \* useState of LearnScreen
    extendCalls,       \* handleExtendLesson invocations awaiting the response
    successTimers,     \* pending setTimeout(() => setExtendSuccess(false), 3000)
    lastCompleted,     \* observation: the extension call that completed last
    platform,          \* Platform.OS: "web", or "native" for ios and android
    audio,             \* the playback useState values of LearnScreen
    playing,           \* per slot: its audio element / player is playing
    playCalls,         \* play handlers awaiting the speech endpoint or the file
    audioCache,        \* webAudioCache (web) / audioCache (native)
    fetched,           \* observation: the (text, voice) pairs whose audio a
                       \* word or paragraph request has fetched
    status,            \* useState of GenerateLessonScreen
    generateCalls,     \* generateLesson invocations awaiting the response
    envApiKey,         \* process.env.OPENAI_API_KEY of the server
    served,            \* observation: the request the server handled last,
                       \* the upstream call it made and the response it sent
    savedWords         \* the saved words of the store

extendVars == <<isExtendingLocal, extendError, extendSuccess, extendCalls,
                successTimers, lastCompleted>>

playVars == <<platform, audio, playing, playCalls, audioCache, fetched>>

screenVars == <<rendered, extendVars, playVars>>

generateVars == <<status, generateCalls>>

serverVars == <<envApiKey, served>>

otherVars == <<generateVars, serverVars, savedWords>>

vars == <<globalState, rendered, extendVars, playVars, otherVars>>

\* ------------------------------------------------------------ the store
InitialGlobalState ==
    [currentLesson |-> Null,
     currentLessonIndex |-> 0,
     lessonCache |-> [k \in MapKeys |-> <<>>],
     recentTopics |-> <<>>,
     apiKey |-> "",
     selectedVoice |-> "alloy",
     isLoading |-> FALSE,
     isExtending |-> FALSE,
     error |-> NoError,
     version |-> 0]

\* variant: the counter is raised once per changed field and once more
notifyListeners_twice(st) ==
    [st EXCEPT !.version = IF @ + 2 <= MaxVersion THEN @ + 2 ELSE MaxVersion]

\* globalState = {...globalState, version: version + 1}; the model stops
\* counting at MaxVersion
notifyListeners(st) ==
    [st EXCEPT !.version = IF @ < MaxVersion THEN @ + 1 ELSE @]

\* Array.prototype.findIndex(l => l.id === id): 0-based, -1 when absent
findIndex(lessons, id) ==
    IF \E i \in 1..Len(lessons) : lessons[i].id = id
    THEN (CHOOSE i \in 1..Len(lessons) :
              /\ lessons[i].id = id
              /\ \A j \in 1..(i - 1) : lessons[j].id # id) - 1
    ELSE -1

\* lessonCache.get(topic) || []
cacheGet(st, topic) == st.lessonCache[topic]

\* variant: setting no lesson empties the cache with it
setCurrentLesson_nullClearsCache(st, lesson) ==
    IF lesson # Null
    THEN LET topic == toLowerCase(lesson.topic)
             existingLessons == cacheGet(st, topic)
             existingIndex == findIndex(existingLessons, lesson.id)
         IN IF existingIndex = -1
            THEN LET updatedLessons == Append(existingLessons, lesson)
                 IN notifyListeners(
                      [st EXCEPT !.lessonCache[topic] = updatedLessons,
                                 !.currentLesson = lesson,
                                 !.currentLessonIndex = Len(updatedLessons) - 1])
            ELSE notifyListeners(
                      [st EXCEPT !.lessonCache[topic][existingIndex + 1] = lesson,
                                 !.currentLesson = lesson,
                                 !.currentLessonIndex = existingIndex])
    ELSE notifyListeners(
             [st EXCEPT !.lessonCache = [k \in DOMAIN @ |-> <<>>],
                        !.currentLesson = Null,
                        !.currentLessonIndex = 0])

\* variant: the key of the cache is the topic as it was typed
setCurrentLesson_keyedByTopic(st, lesson) ==
    IF lesson # Null
    THEN LET topic == lesson.topic
             existingLessons == cacheGet(st, topic)
             existingIndex == findIndex(existingLessons, lesson.id)
         IN IF existingIndex = -1
            THEN LET updatedLessons == Append(existingLessons, lesson)
                 IN notifyListeners(
                      [st EXCEPT !.lessonCache[topic] = updatedLessons,
                                 !.currentLesson = lesson,
                                 !.currentLessonIndex = Len(updatedLessons) - 1])
            ELSE notifyListeners(
                      [st EXCEPT !.lessonCache[topic][existingIndex + 1] = lesson,
                                 !.currentLesson = lesson,
                                 !.currentLessonIndex = existingIndex])
    ELSE notifyListeners(
             [st EXCEPT !.currentLesson = Null, !.currentLessonIndex = 0])

\* variant: a lesson whose id is in the list is appended again
setCurrentLesson_alwaysAppends(st, lesson) ==
    IF lesson # Null
    THEN LET topic == toLowerCase(lesson.topic)
             updatedLessons == Append(cacheGet(st, topic), lesson)
         IN notifyListeners(
              [st EXCEPT !.lessonCache[topic] = updatedLessons,
                         !.currentLesson = lesson,
                         !.currentLessonIndex = Len(updatedLessons) - 1])
    ELSE notifyListeners(
             [st EXCEPT !.currentLesson = Null, !.currentLessonIndex = 0])

\* variant: an appended lesson gets the index after the last one
setCurrentLesson_indexPastEnd(st, lesson) ==
    IF lesson # Null
    THEN LET topic == toLowerCase(lesson.topic)
             existingLessons == cacheGet(st, topic)
             existingIndex == findIndex(existingLessons, lesson.id)
         IN IF existingIndex = -1
            THEN notifyListeners(
                   [st EXCEPT !.lessonCache[topic] = Append(existingLessons, lesson),
                              !.currentLesson = lesson,
                              !.currentLessonIndex = Len(existingLessons) + 1])
            ELSE notifyListeners(
                   [st EXCEPT !.lessonCache[topic][existingIndex + 1] = lesson,
                              !.currentLesson = lesson,
                              !.currentLessonIndex = existingIndex])
    ELSE notifyListeners(
             [st EXCEPT !.currentLesson = Null, !.currentLessonIndex = 0])

setCurrentLesson(st, lesson) ==
    IF lesson # Null
    THEN LET topic == toLowerCase(lesson.topic)
             existingLessons == cacheGet(st, topic)
             existingIndex == findIndex(existingLessons, lesson.id)
         IN IF existingIndex = -1
            THEN LET updatedLessons == Append(existingLessons, lesson)
                 IN notifyListeners(
                      [st EXCEPT !.lessonCache[topic] = updatedLessons,
                                 !.currentLesson = lesson,
                                 !.currentLessonIndex = Len(updatedLessons) - 1])
            ELSE notifyListeners(
                      [st EXCEPT !.lessonCache[topic][existingIndex + 1] = lesson,
                                 !.currentLesson = lesson,
                                 !.currentLessonIndex = existingIndex])
    ELSE notifyListeners(
             [st EXCEPT !.currentLesson = Null, !.currentLessonIndex = 0])

\* variant: a lesson whose id is in the list replaces that entry
addNewLessonToCache_upserts(st, lesson) ==
    LET topic == toLowerCase(lesson.topic)
        existingLessons == cacheGet(st, topic)
        existingIndex == findIndex(existingLessons, lesson.id)
    IN IF existingIndex = -1
       THEN notifyListeners(
              [st EXCEPT !.lessonCache[topic] = Append(existingLessons, lesson),
                         !.currentLesson = lesson,
                         !.currentLessonIndex = Len(existingLessons)])
       ELSE notifyListeners(
              [st EXCEPT !.lessonCache[topic][existingIndex + 1] = lesson,
                         !.currentLesson = lesson,
                         !.currentLessonIndex = existingIndex])

addNewLessonToCache(st, lesson) ==
    LET topic == toLowerCase(lesson.topic)
        existingLessons == cacheGet(st, topic)
        updatedLessons == Append(existingLessons, lesson)
    IN notifyListeners(
         [st EXCEPT !.lessonCache[topic] = updatedLessons,
                    !.currentLesson = lesson,
                    !.currentLessonIndex = Len(updatedLessons) - 1])

\* variant: the selected lesson becomes current but the index is not updated
switchToLesson_keepsIndex(st, index) ==
    IF st.currentLesson = Null
    THEN st
    ELSE LET topic == toLowerCase(st.currentLesson.topic)
             lessons == cacheGet(st, topic)
         IN IF index >= 0 /\ index < Len(lessons)
            THEN notifyListeners([st EXCEPT !.currentLesson = lessons[index + 1]])
            ELSE st

\* variant: the listeners are told of a call that selected nothing
switchToLesson_notifiesAlways(st, index) ==
    IF st.currentLesson = Null
    THEN notifyListeners(st)
    ELSE LET topic == toLowerCase(st.currentLesson.topic)
             lessons == cacheGet(st, topic)
         IN IF index >= 0 /\ index < Len(lessons)
            THEN notifyListeners(
                   [st EXCEPT !.currentLesson = lessons[index + 1],
                              !.currentLessonIndex = index])
            ELSE notifyListeners(st)

switchToLesson(st, index) ==
    IF st.currentLesson = Null
    THEN st
    ELSE LET topic == toLowerCase(st.currentLesson.topic)
             lessons == cacheGet(st, topic)
         IN IF index >= 0 /\ index < Len(lessons)
            THEN notifyListeners(
                   [st EXCEPT !.currentLesson = lessons[index + 1],
                              !.currentLessonIndex = index])
            ELSE st

\* Array.prototype.slice(0, end)
slice(seq, end) == SubSeq(seq, 1, IF Len(seq) < end THEN Len(seq) ELSE end)

\* Array.prototype.filter(t => t !== topic)
filterOut(seq, topic) == SelectSeq(seq, LAMBDA t : t # topic)

\* variant: the list is not cut to its first ten entries
addRecentTopic_unbounded(st, topic) ==
    notifyListeners(
        [st EXCEPT !.recentTopics = <<topic>> \o filterOut(@, topic)])

\* variant: an earlier entry is removed when it matches ignoring letter case
addRecentTopic_ignoresCase(st, topic) ==
    notifyListeners(
        [st EXCEPT !.recentTopics =
            slice(<<topic>> \o
                    SelectSeq(@, LAMBDA t : toLowerCase(t) # toLowerCase(topic)),
                  RecentLimit)])

addRecentTopic(st, topic) ==
    LET filtered == filterOut(st.recentTopics, topic)
    IN notifyListeners(
         [st EXCEPT !.recentTopics = slice(<<topic>> \o filtered, RecentLimit)])

setApiKey(st, key) == notifyListeners([st EXCEPT !.apiKey = key])

setSelectedVoice(st, voice) ==
    notifyListeners([st EXCEPT !.selectedVoice = voice])

setIsLoading(st, loading) == notifyListeners([st EXCEPT !.isLoading = loading])

setError(st, error) == notifyListeners([st EXCEPT !.error = error])

\* variant: the flag can be raised but not lowered
setIsExtending_sticky(st, extending) ==
    notifyListeners([st EXCEPT !.isExtending = @ \/ extending])

setIsExtending(st, extending) ==
    notifyListeners([st EXCEPT !.isExtending = extending])

\* variant: the new section is put first
addSection_prepends(st, section) ==
    IF st.currentLesson = Null
    THEN st
    ELSE LET updatedLesson ==
                 [st.currentLesson EXCEPT !.sections = <<section>> \o @]
             topic == toLowerCase(updatedLesson.topic)
             existingLessons == cacheGet(st, topic)
             lessonIndex == findIndex(existingLessons, updatedLesson.id)
             cached == IF lessonIndex # -1
                       THEN [st EXCEPT !.lessonCache[topic][lessonIndex + 1] =
                                           updatedLesson]
                       ELSE st
         IN notifyListeners([cached EXCEPT !.currentLesson = updatedLesson])

\* variant: without the early return on a null current lesson
addSection_noNullGuard(st, section) ==
    IF st.currentLesson = Null
    THEN notifyListeners(
             [st EXCEPT !.currentLesson.sections = Append(@, section)])
    ELSE LET updatedLesson ==
                 [st.currentLesson EXCEPT !.sections = Append(@, section)]
             topic == toLowerCase(updatedLesson.topic)
             existingLessons == cacheGet(st, topic)
             lessonIndex == findIndex(existingLessons, updatedLesson.id)
             cached == IF lessonIndex # -1
                       THEN [st EXCEPT !.lessonCache[topic][lessonIndex + 1] =
                                           updatedLesson]
                       ELSE st
         IN notifyListeners([cached EXCEPT !.currentLesson = updatedLesson])

\* variant: the listeners are told of a call made without a current lesson
addSection_notifiesOnNull(st, section) ==
    IF st.currentLesson = Null
    THEN notifyListeners(st)
    ELSE LET updatedLesson ==
                 [st.currentLesson EXCEPT !.sections = Append(@, section)]
             topic == toLowerCase(updatedLesson.topic)
             existingLessons == cacheGet(st, topic)
             lessonIndex == findIndex(existingLessons, updatedLesson.id)
             cached == IF lessonIndex # -1
                       THEN [st EXCEPT !.lessonCache[topic][lessonIndex + 1] =
                                           updatedLesson]
                       ELSE st
         IN notifyListeners([cached EXCEPT !.currentLesson = updatedLesson])

addSection(st, section) ==
    IF st.currentLesson = Null
    THEN st
    ELSE LET updatedLesson ==
                 [st.currentLesson EXCEPT !.sections = Append(@, section)]
             topic == toLowerCase(updatedLesson.topic)
             existingLessons == cacheGet(st, topic)
             lessonIndex == findIndex(existingLessons, updatedLesson.id)
             cached == IF lessonIndex # -1
                       THEN [st EXCEPT !.lessonCache[topic][lessonIndex + 1] =
                                           updatedLesson]
                       ELSE st
         IN notifyListeners([cached EXCEPT !.currentLesson = updatedLesson])

\* variant: clearing the lesson resets the loading flags with it
clearLesson_resetsFlags(st) ==
    notifyListeners(
        [st EXCEPT !.currentLesson = Null,
                   !.currentLessonIndex = 0,
                   !.error = NoError,
                   !.isLoading = FALSE,
                   !.isExtending = FALSE])

clearLesson(st) ==
    notifyListeners(
        [st EXCEPT !.currentLesson = Null,
                   !.currentLessonIndex = 0,
                   !.error = NoError])

\* the observation kept of the extension call that completed last: whether
\* clearLesson ran while its request was outstanding
NoCall == [cleared |-> FALSE]
Completed(call) == [cleared |-> call.cleared]

\* --------------------------------------------------- playback data model
Platforms == {"web", "native"}
Slots == {"lesson", "word", "paragraph"}

\* null for playingWord, playingParagraphIndex and the audio URIs
NoWord == "null"
NoIndex == -1
NoUri == [voice |-> "null", text |-> <<>>]

GenerateAudioError == "Failed to generate audio"
PlayAudioError == "Failed to play audio"
SaveAudioError == "Failed to save audio file"
ProcessAudioError == "Failed to process audio"

\* variant: the key is the text alone
getAudioCacheKey_textOnly(text, voice) == [voice |-> "", text |-> text]

\* getAudioCacheKey(text, voice): `${voice}:${text}`; a voice id has no colon,
\* so the key determines the pair
getAudioCacheKey(text, voice) == [voice |-> voice, text |-> text]

\* the audio synthesized for a request (a Blob on web, a file URI on native)
Synthesized(call) == [voice |-> call.voice, text |-> call.text]

\* audioCache.set(key, value) / webAudioCache.set(key, value): the value of
\* the key is replaced.  Every synthesis makes a new Blob, and on native a
\* new file named after the time; written tells the values of one key apart
\* by counting the writes to the key.
cacheSet(cache, key, value) ==
    LET old == {e \in cache : e.key = key}
    IN (cache \ old)
       \cup {[key |-> key, audio |-> value,
              written |-> IF old = {} THEN 1
                          ELSE (CHOOSE e \in old : TRUE).written + 1]}

\* the text sent for the whole lesson: sections.map(s => s.paragraph).join(" ")
allParagraphs(lesson) ==
    [i \in 1..Len(lesson.sections) |-> lesson.sections[i].paragraph]

InitialAudio ==
    [isLoadingAudio |-> FALSE,
     isPlaying |-> FALSE,
     audioError |-> NoError,
     audioUri |-> NoUri,
     shouldPlay |-> FALSE,
     playingWord |-> NoWord,
     wordAudioUri |-> NoUri,
     shouldPlayWord |-> FALSE,
     playingParagraphIndex |-> NoIndex,
     paragraphAudioUri |-> NoUri,
     shouldPlayParagraph |-> FALSE,
     isLoadingParagraphAudio |-> FALSE]

\* ------------------------------------------------------ the server routes
\* undefined: a field the request body does not carry, or an unset variable
\* of the environment
Absent == "undefined"

JsonNull == "null"

\* !v for the strings and undefined values a request can carry
Falsy(v) == v \in {Absent, JsonNull, ""}

\* the text of a completion, cut into the pieces the patterns of the route and
\* JSON.parse tell apart: the two markers, the brackets and the comma of a
\* JSON array, a JSON string ("w") and any other run of text ("x"); white
\* space, which the patterns skip, is left out
Tokens == {"PARAGRAPH:", "WORDS:", "[", "]", ",", "w", "x"}

Texts == UNION {[1..n -> Tokens] : n \in 0..MaxTokens}

NoMatch == [matched |-> FALSE]

\* the positions of a token in a text
positions(text, token) == {i \in 1..Len(text) : text[i] = token}

least(S) == CHOOSE i \in S : \A j \in S : i <= j

greatest(S) == CHOOSE i \in S : \A j \in S : i >= j

\* responseText.match(/PARAGRAPH:\s*([\s\S]*?)\s*WORDS:/): from the first
\* PARAGRAPH: to the first WORDS: after it, the group being the text between
paragraphMatch(text) ==
    LET starts == positions(text, "PARAGRAPH:")
    IN IF starts = {}
       THEN NoMatch
       ELSE LET i == least(starts)
                ends == {j \in positions(text, "WORDS:") : j > i}
            IN IF ends = {}
               THEN NoMatch
               ELSE [matched |-> TRUE,
                     group |-> SubSeq(text, i + 1, least(ends) - 1)]

\* responseText.match(/WORDS:\s*(\[[\s\S]*\])/): the first WORDS: that an
\* opening bracket follows, the group running to the last closing bracket of
\* the text
wordsMatch(text) ==
    LET closes == positions(text, "]")
        starts == {k \in positions(text, "WORDS:") :
                      /\ k + 1 <= Len(text)
                      /\ text[k + 1] = "["
                      /\ \E e \in closes : e >= k + 2}
    IN IF starts = {}
       THEN NoMatch
       ELSE [matched |-> TRUE,
             group |-> SubSeq(text, least(starts) + 1, greatest(closes))]

SyntaxError == [ok |-> FALSE]

\* JSON.parse on the tokens of a text: a value is a string or an array of
\* values separated by commas; anything else throws a SyntaxError
RECURSIVE parseValue(_, _)
RECURSIVE parseItems(_, _, _)
parseValue(ts, p) ==
    IF p > Len(ts)
    THEN SyntaxError
    ELSE IF ts[p] = "w"
    THEN [ok |-> TRUE, next |-> p + 1, value |-> [word |-> "w"]]
    ELSE IF ts[p] = "["
    THEN IF p + 1 <= Len(ts) /\ ts[p + 1] = "]"
         THEN [ok |-> TRUE, next |-> p + 2, value |-> [items |-> <<>>]]
         ELSE parseItems(ts, p + 1, <<>>)
    ELSE SyntaxError

parseItems(ts, p, acc) ==
    LET v == parseValue(ts, p)
    IN IF ~v.ok
       THEN SyntaxError
       ELSE IF v.next > Len(ts)
       THEN SyntaxError
       ELSE IF ts[v.next] = "]"
       THEN [ok |-> TRUE, next |-> v.next + 1,
             value |-> [items |-> Append(acc, v.value)]]
       ELSE IF ts[v.next] = ","
       THEN parseItems(ts, v.next + 1, Append(acc, v.value))
       ELSE SyntaxError

JSONparse(ts) ==
    LET v == parseValue(ts, 1)
    IN IF v.ok /\ v.next = Len(ts) + 1 THEN v ELSE SyntaxError

\* what the OpenAI client does with a call: it throws an error that carries a
\* status and a message, or it returns
UpstreamErrors ==
    {[thrown |-> TRUE, status |-> s, message |-> m] :
        s \in {401, 429, 500, 503}, m \in {"", "Connection error."}}

Completions == {[thrown |-> FALSE, content |-> text] : text \in Texts}

SpeechResults == {[thrown |-> FALSE, audio |-> "mp3"]}

NoUpstream == [api |-> "none"]

json(code, message) == [status |-> code, body |-> [message |-> message]]

\* the catch block of both routes
routeFailure(error, fallback) ==
    IF error.status = 401
    THEN json(401, "Invalid API key. Please check your OpenAI API key.")
    ELSE IF error.status = 429
    THEN json(429, "Rate limit exceeded. Please try again later.")
    ELSE json(500, IF error.message # "" THEN error.message ELSE fallback)

\* tags.length on a null tags field
TagsTypeError ==
    [thrown |-> TRUE, status |-> 500,
     message |-> "Cannot read properties of null (reading 'length')"]

\* variant: a word list that does not parse is answered as an empty list
parseCompletion_emptyOnError(content) ==
    LET pm == paragraphMatch(content)
        wm == wordsMatch(content)
    IN IF ~pm.matched \/ ~wm.matched
       THEN json(500, "Failed to parse AI response. Please try again.")
       ELSE LET words == JSONparse(wm.group)
            IN [status |-> 200,
                body |-> [paragraph |-> pm.group,
                          words |-> IF words.ok THEN words.value
                                    ELSE [items |-> <<>>]]]

\* the part of the generate-lesson handler after the completion returned
parseCompletion(content) ==
    LET pm == paragraphMatch(content)
        wm == wordsMatch(content)
    IN IF ~pm.matched \/ ~wm.matched
       THEN json(500, "Failed to parse AI response. Please try again.")
       ELSE LET words == JSONparse(wm.group)
            IN IF ~words.ok
               THEN json(500,
                         "Failed to parse vocabulary data. Please try again.")
               ELSE [status |-> 200,
                     body |-> [paragraph |-> pm.group,
                               words |-> words.value]]

\* variant: the key and the request are looked at after the upstream call
generateLessonRoute_callsFirst(body, env, outcome) ==
    [upstream |-> [api |-> "chat.completions", model |-> "gpt-4o",
                   topic |-> body.topic],
     response |-> IF Falsy(body.topic)
                  THEN json(400, "Topic is required")
                  ELSE IF outcome.thrown
                  THEN routeFailure(outcome, "Failed to generate lesson")
                  ELSE parseCompletion(outcome.content)]

\* app.post("/api/generate-lesson"): the upstream call the handler makes for
\* a request body, and the response it sends when the call ends as outcome
generateLessonRoute(body, env, outcome) ==
    IF Falsy(body.topic)
    THEN [upstream |-> NoUpstream,
          response |-> json(400, "Topic is required")]
    ELSE IF Falsy(env)
    THEN [upstream |-> NoUpstream,
          response |-> json(400, "OpenAI API key is not configured")]
    ELSE IF body.tags = JsonNull
    THEN [upstream |-> NoUpstream,
          response |-> routeFailure(TagsTypeError, "Failed to generate lesson")]
    ELSE [upstream |-> [api |-> "chat.completions", model |-> "gpt-4o",
                        topic |-> body.topic],
          response |-> IF outcome.thrown
                       THEN routeFailure(outcome, "Failed to generate lesson")
                       ELSE parseCompletion(outcome.content)]

validVoices == {"alloy", "echo", "fable", "onyx", "nova", "shimmer"}

\* variant: the voice of the request goes upstream as it came
textToSpeechRoute_anyVoice(body, env, outcome) ==
    IF Falsy(body.text)
    THEN [upstream |-> NoUpstream,
          response |-> json(400, "Text is required")]
    ELSE IF Falsy(env)
    THEN [upstream |-> NoUpstream,
          response |-> json(400, "OpenAI API key is not configured")]
    ELSE LET voice == IF body.voice = Absent THEN "alloy" ELSE body.voice
             call == [api |-> "audio.speech", model |-> "tts-1",
                      voice |-> voice, input |-> body.text]
         IN [upstream |-> call,
             response |-> IF outcome.thrown
                          THEN routeFailure(outcome, "Failed to generate audio")
                          ELSE [status |-> 200,
                                body |-> [audio |-> [input |-> call.input,
                                                     voice |-> call.voice]]]]

\* app.post("/api/text-to-speech")
textToSpeechRoute(body, env, outcome) ==
    IF Falsy(body.text)
    THEN [upstream |-> NoUpstream,
          response |-> json(400, "Text is required")]
    ELSE LET voice == IF body.voice = Absent THEN "alloy" ELSE body.voice
             selectedVoice == IF voice \in validVoices THEN voice ELSE "alloy"
         IN IF Falsy(env)
            THEN [upstream |-> NoUpstream,
                  response |-> json(400, "OpenAI API key is not configured")]
            ELSE LET call == [api |-> "audio.speech", model |-> "tts-1",
                              voice |-> selectedVoice, input |-> body.text]
                 IN [upstream |-> call,
                     response |->
                        IF outcome.thrown
                        THEN routeFailure(outcome, "Failed to generate audio")
                        ELSE [status |-> 200,
                              body |-> [audio |-> [input |-> call.input,
                                                   voice |-> call.voice]]]]

\* the request bodies the routes are tried with
TopicInputs == {Absent, "", "Travel"}

TagsInputs == {Absent, JsonNull, "array"}

LessonBodies == [topic : TopicInputs, tags : TagsInputs]

TextInputs == {Absent, "", "hello"}

VoiceInputs == validVoices \cup {Absent, JsonNull, "", "robot", "Alloy"}

SpeechBodies == [text : TextInputs, voice : VoiceInputs]

EnvApiKeys == {Absent, "sk-env"}

NoExchange == [route |-> "none"]

NoAnswer == [thrown |-> FALSE]

\* what the server is seen to do with one request: the upstream call it
\* made, how that call ended, and the response it sent
Exchange(route, body, result, outcome) ==
    [route |-> route, body |-> body,
     upstream |-> result.upstream,
     answer |-> IF result.upstream = NoUpstream THEN NoAnswer ELSE outcome,
     response |-> result.response]

\* ------------------------------------------------------------------ Init
InitScreenState ==
    /\ rendered = [currentLesson |-> Null,
                   isExtending |-> FALSE,
                   isExtendingLocal |-> FALSE,
                   selectedVoice |-> InitialGlobalState.selectedVoice,
                   audio |-> InitialAudio]
    /\ isExtendingLocal = FALSE
    /\ extendError = NoError
    /\ extendSuccess = FALSE
    /\ extendCalls = <<>>
    /\ successTimers = 0
    /\ lastCompleted = NoCall
    /\ audio = InitialAudio
    /\ playing = [k \in Slots |-> FALSE]
    /\ playCalls = <<>>
    /\ audioCache = {}
    /\ fetched = {}
    /\ status = "loading"
    /\ generateCalls = <<>>
    /\ served = NoExchange
    /\ savedWords = <<>>

InitScreen ==
    /\ globalState = InitialGlobalState
    /\ InitScreenState
    /\ envApiKey = "sk-env"

\* the server is started with or without a key in its environment
InitServer ==
    /\ globalState = InitialGlobalState
    /\ InitScreenState
    /\ platform = "native"
    /\ envApiKey \in EnvApiKeys

Init == InitScreen /\ platform = "native"

\* the lists recentTopics holds after the first n of ten distinct topics
RecentLists ==
    {[i \in 1..n |-> FirstTopics[n + 1 - i]] : n \in 0..Len(FirstTopics)}

\* the store at a point of the session where n distinct topics were added;
\* version counts the mutations from that point on
InitTopics ==
    /\ InitScreenState
    /\ platform = "native"
    /\ envApiKey = "sk-env"
    /\ \E list \in RecentLists :
          globalState = [InitialGlobalState EXCEPT !.recentTopics = list]

InitPlay == InitScreen /\ platform \in Platforms

\* ------------------------------------------------- store calls by callers
SetCurrentLesson(lesson) ==
    /\ lesson # Null =>
          \/ findIndex(cacheGet(globalState, toLowerCase(lesson.topic)), lesson.id) # -1
          \/ Len(cacheGet(globalState, toLowerCase(lesson.topic))) < MaxLessons
    /\ globalState' = setCurrentLesson(globalState, lesson)
    /\ UNCHANGED <<screenVars, otherVars>>

AddNewLessonToCache(lesson) ==
    /\ Len(cacheGet(globalState, toLowerCase(lesson.topic))) < MaxLessons
    /\ globalState' = addNewLessonToCache(globalState, lesson)
    /\ UNCHANGED <<screenVars, otherVars>>

SwitchToLesson(index) ==
    /\ globalState' = switchToLesson(globalState, index)
    /\ UNCHANGED <<screenVars, otherVars>>

AddSection(section) ==
    /\ Len(globalState.currentLesson.sections) < MaxSections
    /\ globalState' = addSection(globalState, section)
    /\ UNCHANGED <<screenVars, otherVars>>

ClearLesson ==
    /\ globalState' = clearLesson(globalState)
    /\ extendCalls' = [i \in 1..Len(extendCalls) |->
                          [extendCalls[i] EXCEPT !.cleared = TRUE]]
    /\ UNCHANGED <<rendered, isExtendingLocal, extendError, extendSuccess,
                   successTimers, lastCompleted, playVars, otherVars>>

AddRecentTopic(topic) ==
    /\ globalState' = addRecentTopic(globalState, topic)
    /\ UNCHANGED <<screenVars, otherVars>>

SetApiKey(key) ==
    /\ globalState' = setApiKey(globalState, key)
    /\ UNCHANGED <<screenVars, otherVars>>

\* variant: the voice change empties the audio cache
SetSelectedVoice_resetsCache(voice) ==
    /\ globalState' = setSelectedVoice(globalState, voice)
    /\ audioCache' = {}
    /\ UNCHANGED <<rendered, extendVars, platform, audio, playing, playCalls,
                   fetched, otherVars>>

\* setSelectedVoice, as handleSelectVoice of the settings screen calls it
SetSelectedVoice(voice) ==
    /\ globalState' = setSelectedVoice(globalState, voice)
    /\ UNCHANGED <<screenVars, otherVars>>

SetIsLoading(loading) ==
    /\ globalState' = setIsLoading(globalState, loading)
    /\ UNCHANGED <<screenVars, otherVars>>

SetIsExtending(extending) ==
    /\ globalState' = setIsExtending(globalState, extending)
    /\ UNCHANGED <<screenVars, otherVars>>

SetError(error) ==
    /\ globalState' = setError(globalState, error)
    /\ UNCHANGED <<screenVars, otherVars>>

\* ------------------------------------------------------------ LearnScreen
\* what a render of LearnScreen would capture now
Snapshot ==
    [currentLesson |-> globalState.currentLesson,
     isExtending |-> globalState.isExtending,
     isExtendingLocal |-> isExtendingLocal,
     selectedVoice |-> globalState.selectedVoice,
     audio |-> audio]

\* the audio URI and the shouldPlay flag of a slot
uriOf(a, k) ==
    CASE k = "lesson" -> a.audioUri
      [] k = "word" -> a.wordAudioUri
      [] k = "paragraph" -> a.paragraphAudioUri

shouldPlayOf(a, k) ==
    CASE k = "lesson" -> a.shouldPlay
      [] k = "word" -> a.shouldPlayWord
      [] k = "paragraph" -> a.shouldPlayParagraph

\* the effects `if (shouldPlay && uri && player && Platform.OS !== "web")`
playEffectRuns(a, k) ==
    platform # "web" /\ shouldPlayOf(a, k) /\ uriOf(a, k) # NoUri

\* A re-render of LearnScreen: the handlers and intervals created by it
\* capture the current values; the effect on [isExtending] runs when that
\* value differs from the one of the previous render; useAudioPlayer gives a
\* player for a changed URI; the play effects start the player and lower
\* their shouldPlay flag.
Render ==
    /\ Snapshot # rendered
    /\ rendered' = Snapshot
    /\ isExtendingLocal' = IF Snapshot.isExtending # rendered.isExtending
                           THEN Snapshot.isExtending
                           ELSE isExtendingLocal
    /\ playing' = [k \in Slots |->
                      IF playEffectRuns(audio, k) THEN TRUE
                      ELSE IF uriOf(audio, k) # uriOf(rendered.audio, k)
                           THEN FALSE
                           ELSE playing[k]]
    /\ audio' = [audio EXCEPT
                   !.shouldPlay = @ /\ ~playEffectRuns(audio, "lesson"),
                   !.shouldPlayWord = @ /\ ~playEffectRuns(audio, "word"),
                   !.shouldPlayParagraph =
                        @ /\ ~playEffectRuns(audio, "paragraph")]
    /\ UNCHANGED <<globalState, extendError, extendSuccess, extendCalls,
                   successTimers, lastCompleted, platform, playCalls,
                   audioCache, fetched, otherVars>>

\* the guard of handleExtendLesson, on the values of its closure
extendGuard(r) ==
    r.currentLesson # Null /\ ~r.isExtendingLocal /\ ~r.isExtending

\* handleExtendLesson up to its await: rejected by the guard, or the flags
\* are set and the request is sent
HandleExtendLesson ==
    IF extendGuard(rendered)
    THEN /\ Len(extendCalls) < MaxInFlight
         /\ isExtendingLocal' = TRUE
         /\ globalState' = setIsExtending(globalState, TRUE)
         /\ extendError' = NoError
         /\ extendCalls' = Append(extendCalls,
                                  [id |-> rendered.currentLesson.id,
                                   cleared |-> FALSE])
         /\ UNCHANGED <<rendered, extendSuccess, successTimers, lastCompleted,
                        playVars, otherVars>>
    ELSE UNCHANGED <<globalState, screenVars, otherVars>>

\* what the request to /api/extend-lesson can produce: apiRequest or
\* response.json() throws an error, or a response with a JSON body arrives
Thrown == [kind : {"throw"}, ok : {FALSE}, message : {"", "msg"},
           paragraph : {""}, hasWords : {FALSE}, words : {<<>>}]
Bodies == [kind : {"response"}, ok : BOOLEAN, message : {"", "msg"},
           paragraph : {"", "p2"}, hasWords : BOOLEAN,
           words : {<<>>, <<"w2">>}]
Responses ==
    Thrown \cup {b \in Bodies : /\ ~b.hasWords => b.words = <<>>
                                /\ ~b.ok => b.paragraph = "" /\ ~b.hasWords}

\* a || b on strings
OrElse(a, b) == IF a # "" THEN a ELSE b

\* data.paragraph && data.words
responseValid(resp) == resp.paragraph # "" /\ resp.hasWords

\* the message of the error caught by handleExtendLesson, NoError when the
\* try block completes
extendFailure(resp) ==
    IF resp.kind = "throw" THEN OrElse(resp.message, GenericExtendError)
    ELSE IF ~resp.ok THEN OrElse(OrElse(resp.message, GenericExtendError),
                                 GenericExtendError)
    ELSE IF responseValid(resp) THEN NoError
    ELSE OrElse(InvalidDataError, GenericExtendError)

RemoveAt(seq, i) == SubSeq(seq, 1, i - 1) \o SubSeq(seq, i + 1, Len(seq))

\* handleExtendLesson from the await to the end of the finally block
ExtendComplete(i, resp) ==
    LET call == extendCalls[i]
        failure == extendFailure(resp)
    IN /\ extendCalls' = RemoveAt(extendCalls, i)
       /\ isExtendingLocal' = FALSE
       /\ UNCHANGED <<rendered, playVars, otherVars>>
       /\ IF failure = NoError
          THEN /\ Len(globalState.currentLesson.sections) < MaxSections
               /\ successTimers < MaxTimers
               /\ globalState' = setIsExtending(
                      addSection(globalState,
                                 [paragraph |-> resp.paragraph,
                                  words |-> resp.words]), FALSE)
               /\ extendSuccess' = TRUE
               /\ successTimers' = successTimers + 1
               /\ UNCHANGED extendError
               /\ lastCompleted' = Completed(call)
          ELSE /\ globalState' = setIsExtending(globalState, FALSE)
               /\ extendError' = failure
               /\ UNCHANGED <<extendSuccess, successTimers>>
               /\ lastCompleted' = Completed(call)

\* variant: the timer fires without clearing the flag
SuccessTimer_keepsFlag ==
    /\ successTimers > 0
    /\ successTimers' = successTimers - 1
    /\ UNCHANGED <<globalState, rendered, isExtendingLocal, extendError,
                   extendSuccess, extendCalls, lastCompleted, playVars,
                   otherVars>>

\* setTimeout(() => setExtendSuccess(false), 3000) fires
SuccessTimer ==
    /\ successTimers > 0
    /\ successTimers' = successTimers - 1
    /\ extendSuccess' = FALSE
    /\ UNCHANGED <<globalState, rendered, isExtendingLocal, extendError,
                   extendCalls, lastCompleted, playVars, otherVars>>

\* ------------------------------------------------- LearnScreen: playback
\* props handed to ParagraphDisplay for the section at a 0-based index
isParagraphLoading(r, index) ==
    r.audio.isLoadingParagraphAudio /\ r.audio.playingParagraphIndex = index

isParagraphPlaying(r, index) == r.audio.playingParagraphIndex = index

isLessonPlaying(r) == r.audio.isPlaying

\* disabled of the Listen button
playButtonDisabled(r) ==
    \/ r.audio.isLoadingAudio
    \/ r.audio.isPlaying
    \/ r.audio.playingParagraphIndex # NoIndex
    \/ r.audio.playingWord # NoWord

\* disabled of the listen button of the paragraph at index
paragraphListenDisabled(r, index) ==
    \/ r.currentLesson.sections[index + 1].paragraph = ""
    \/ isParagraphLoading(r, index)
    \/ isParagraphPlaying(r, index)
    \/ isLessonPlaying(r)
    \/ r.audio.playingWord # NoWord

\* disabled of the word chips of the section at index
chipDisabled(r, index) ==
    \/ r.audio.playingWord # NoWord
    \/ isParagraphLoading(r, index)
    \/ isParagraphPlaying(r, index)
    \/ isLessonPlaying(r)

\* section.words.slice(0, 10)
chips(section) == {section.words[i] : i \in 1..Len(section.words)}

PlayCall(kind, text, voice) ==
    [kind |-> kind, text |-> text, voice |-> voice, stage |-> "fetch"]

\* handlePlayAudio up to the await of fetch
HandlePlayAudio ==
    /\ rendered.currentLesson # Null
    /\ ~playButtonDisabled(rendered)
    /\ Len(rendered.currentLesson.sections) # 0
    /\ Len(playCalls) < MaxPlayCalls
    /\ audio' = [audio EXCEPT !.isLoadingAudio = TRUE, !.audioError = NoError]
    /\ playCalls' = Append(playCalls,
                           PlayCall("lesson",
                                    allParagraphs(rendered.currentLesson),
                                    rendered.selectedVoice))
    /\ UNCHANGED <<globalState, rendered, extendVars, platform, playing,
                   audioCache, fetched, otherVars>>

\* handlePlayWordAudio(word) from the press of a chip: played from the cache
\* (web: including the settling of audio.play()), or up to the await of fetch,
\* with at most limit requests outstanding
handlePlayWordAudio(word, limit) ==
    LET cacheKey == getAudioCacheKey(<<word>>, rendered.selectedVoice)
        cachedAudio == {e \in audioCache : e.key = cacheKey}
    IN /\ rendered.currentLesson # Null
       /\ \E index \in 0..(Len(rendered.currentLesson.sections) - 1) :
             /\ word \in chips(rendered.currentLesson.sections[index + 1])
             /\ ~chipDisabled(rendered, index)
       /\ rendered.audio.playingWord = NoWord
       /\ UNCHANGED <<globalState, rendered, extendVars, platform, audioCache,
                      fetched, otherVars>>
       /\ IF cachedAudio # {}
          THEN IF platform = "web"
               THEN /\ \E started \in BOOLEAN :
                          /\ playing' = [playing EXCEPT !["word"] = started]
                          /\ audio' = [audio EXCEPT !.playingWord =
                                          IF started THEN word ELSE NoWord]
                    /\ UNCHANGED playCalls
               ELSE /\ audio' = [audio EXCEPT
                                   !.playingWord = word,
                                   !.wordAudioUri =
                                        (CHOOSE e \in cachedAudio : TRUE).audio,
                                   !.shouldPlayWord = TRUE]
                    /\ UNCHANGED <<playing, playCalls>>
          ELSE /\ Len(playCalls) < limit
               /\ audio' = [audio EXCEPT !.playingWord = word]
               /\ playCalls' = Append(playCalls,
                                      PlayCall("word", <<word>>,
                                               rendered.selectedVoice))
               /\ UNCHANGED playing

\* the handler on the lesson screen, where the three kinds of request share
\* the bound on outstanding requests
HandlePlayWordAudio(word) == handlePlayWordAudio(word, MaxPlayCalls)

\* handlePlayParagraphAudio(index) up to the await of fetch
HandlePlayParagraphAudio(index) ==
    /\ rendered.currentLesson # Null
    /\ index < Len(rendered.currentLesson.sections)
    /\ ~paragraphListenDisabled(rendered, index)
    /\ rendered.audio.playingParagraphIndex = NoIndex
    /\ ~rendered.audio.isPlaying
    /\ rendered.currentLesson.sections[index + 1].paragraph # ""
    /\ Len(playCalls) < MaxPlayCalls
    /\ audio' = [audio EXCEPT !.playingParagraphIndex = index,
                              !.isLoadingParagraphAudio = TRUE]
    /\ playCalls' = Append(playCalls,
                           PlayCall("paragraph",
                                    <<rendered.currentLesson.sections[index + 1].paragraph>>,
                                    rendered.selectedVoice))
    /\ UNCHANGED <<globalState, rendered, extendVars, platform, playing,
                   audioCache, fetched, otherVars>>

\* what the request to /api/text-to-speech produces: fetch throws, a non-OK
\* response, or an OK response with the audio
SpeechOutcomes == {"throw", "notOk", "ok"}

\* variant: a failed word or paragraph request keeps its indicator
playFailed_keepsIndicator(a, kind, message) ==
    IF kind = "lesson"
    THEN [a EXCEPT !.audioError = message, !.isPlaying = FALSE,
                   !.isLoadingAudio = FALSE]
    ELSE a

\* the catch blocks of the three play handlers (and, for the whole lesson,
\* the finally block)
playFailed(a, kind, message) ==
    CASE kind = "lesson" ->
             [a EXCEPT !.audioError = message, !.isPlaying = FALSE,
                       !.isLoadingAudio = FALSE]
      [] kind = "word" -> [a EXCEPT !.playingWord = NoWord]
      [] kind = "paragraph" ->
             [a EXCEPT !.playingParagraphIndex = NoIndex,
                       !.isLoadingParagraphAudio = FALSE]

\* a play handler from the await of fetch on.  Web: a new Audio element
\* replaces the one of the slot and audio.play() settles.  Native: the
\* FileReader is started and the handler returns.
SpeechResponse(i, outcome, started) ==
    LET call == playCalls[i]
        entry == [key |-> getAudioCacheKey(call.text, call.voice),
                  audio |-> Synthesized(call)]
    IN /\ call.stage = "fetch"
       /\ UNCHANGED <<globalState, rendered, extendVars, platform, otherVars>>
       /\ IF outcome # "ok"
          THEN /\ started
               /\ audio' = playFailed(audio, call.kind,
                                      IF outcome = "notOk"
                                      THEN GenerateAudioError
                                      ELSE PlayAudioError)
               /\ playCalls' = RemoveAt(playCalls, i)
               /\ UNCHANGED <<playing, audioCache, fetched>>
          ELSE IF platform = "web"
          THEN /\ playCalls' = RemoveAt(playCalls, i)
               /\ fetched' = IF call.kind # "lesson"
                             THEN fetched \cup {entry.key}
                             ELSE fetched
               /\ playing' = [playing EXCEPT ![call.kind] = started]
               /\ audioCache' = IF call.kind = "word"
                                THEN cacheSet(audioCache, entry.key,
                                              entry.audio)
                                ELSE audioCache
               /\ audio' =
                    IF ~started
                    THEN playFailed(audio, call.kind, PlayAudioError)
                    ELSE CASE call.kind = "lesson" ->
                                  [audio EXCEPT !.isPlaying = TRUE,
                                                !.isLoadingAudio = FALSE]
                           [] call.kind = "word" -> audio
                           [] call.kind = "paragraph" ->
                                  [audio EXCEPT
                                      !.isLoadingParagraphAudio = FALSE]
          ELSE /\ started
               /\ playCalls' = [playCalls EXCEPT ![i].stage = "reading"]
               /\ audio' = IF call.kind = "lesson"
                           THEN [audio EXCEPT !.isLoadingAudio = FALSE]
                           ELSE audio
               /\ UNCHANGED <<playing, audioCache, fetched>>

\* native: how the FileReader and the write of the audio file end
ReaderOutcomes == {"saved", "writeFailed", "readerError"}

\* variant: the cache entry is made before the file is written
ReaderDone_cachesFirst(i, outcome) ==
    LET call == playCalls[i]
        fileUri == Synthesized(call)
        entry == [key |-> getAudioCacheKey(call.text, call.voice),
                  audio |-> fileUri]
    IN /\ call.stage = "reading"
       /\ playCalls' = RemoveAt(playCalls, i)
       /\ UNCHANGED <<globalState, rendered, extendVars, platform, playing, otherVars>>
       /\ audioCache' = IF outcome # "readerError" /\ call.kind = "word"
                        THEN cacheSet(audioCache, entry.key, entry.audio)
                        ELSE audioCache
       /\ fetched' = IF outcome = "saved" /\ call.kind # "lesson"
                     THEN fetched \cup {entry.key}
                     ELSE fetched
       /\ audio' =
            CASE call.kind = "lesson" ->
                     IF outcome = "saved"
                     THEN [audio EXCEPT !.audioUri = fileUri,
                                        !.isPlaying = TRUE,
                                        !.shouldPlay = TRUE]
                     ELSE [audio EXCEPT
                              !.audioError = IF outcome = "writeFailed"
                                             THEN SaveAudioError
                                             ELSE ProcessAudioError,
                              !.isPlaying = FALSE]
              [] call.kind = "word" ->
                     IF outcome = "saved"
                     THEN [audio EXCEPT !.wordAudioUri = fileUri,
                                        !.shouldPlayWord = TRUE]
                     ELSE [audio EXCEPT !.playingWord = NoWord]
              [] call.kind = "paragraph" ->
                     IF outcome = "saved"
                     THEN [audio EXCEPT !.paragraphAudioUri = fileUri,
                                        !.shouldPlayParagraph = TRUE,
                                        !.isLoadingParagraphAudio = FALSE]
                     ELSE [audio EXCEPT !.playingParagraphIndex = NoIndex,
                                        !.isLoadingParagraphAudio = FALSE]

\* reader.onloadend / reader.onerror of the three play handlers
ReaderDone(i, outcome) ==
    LET call == playCalls[i]
        fileUri == Synthesized(call)
        entry == [key |-> getAudioCacheKey(call.text, call.voice),
                  audio |-> fileUri]
    IN /\ call.stage = "reading"
       /\ playCalls' = RemoveAt(playCalls, i)
       /\ UNCHANGED <<globalState, rendered, extendVars, platform, playing, otherVars>>
       /\ audioCache' = IF outcome = "saved" /\ call.kind = "word"
                        THEN cacheSet(audioCache, entry.key, entry.audio)
                        ELSE audioCache
       /\ fetched' = IF outcome = "saved" /\ call.kind # "lesson"
                     THEN fetched \cup {entry.key}
                     ELSE fetched
       /\ audio' =
            CASE call.kind = "lesson" ->
                     IF outcome = "saved"
                     THEN [audio EXCEPT !.audioUri = fileUri,
                                        !.isPlaying = TRUE,
                                        !.shouldPlay = TRUE]
                     ELSE [audio EXCEPT
                              !.audioError = IF outcome = "writeFailed"
                                             THEN SaveAudioError
                                             ELSE ProcessAudioError,
                              !.isPlaying = FALSE]
              [] call.kind = "word" ->
                     IF outcome = "saved"
                     THEN [audio EXCEPT !.wordAudioUri = fileUri,
                                        !.shouldPlayWord = TRUE]
                     ELSE [audio EXCEPT !.playingWord = NoWord]
              [] call.kind = "paragraph" ->
                     IF outcome = "saved"
                     THEN [audio EXCEPT !.paragraphAudioUri = fileUri,
                                        !.shouldPlayParagraph = TRUE,
                                        !.isLoadingParagraphAudio = FALSE]
                     ELSE [audio EXCEPT !.playingParagraphIndex = NoIndex,
                                        !.isLoadingParagraphAudio = FALSE]

\* web: audio.onended / audio.onerror of the element of a slot
AudioStops(kind, failed) ==
    /\ platform = "web"
    /\ playing[kind]
    /\ playing' = [playing EXCEPT ![kind] = FALSE]
    /\ audio' =
         CASE kind = "lesson" ->
                  [audio EXCEPT !.isPlaying = FALSE,
                                !.audioError = IF failed THEN PlayAudioError
                                               ELSE @]
           [] kind = "word" -> [audio EXCEPT !.playingWord = NoWord]
           [] kind = "paragraph" ->
                  [audio EXCEPT !.playingParagraphIndex = NoIndex,
                                !.isLoadingParagraphAudio = FALSE]
    /\ UNCHANGED <<globalState, rendered, extendVars, platform, playCalls,
                   audioCache, fetched, otherVars>>

\* native: the player of a slot reaches the end of its audio
PlaybackEnds(kind) ==
    /\ platform # "web"
    /\ playing[kind]
    /\ playing' = [playing EXCEPT ![kind] = FALSE]
    /\ UNCHANGED <<globalState, rendered, extendVars, platform, audio,
                   playCalls, audioCache, fetched, otherVars>>

\* native: a tick of the checkStatus interval of a slot, on the values its
\* effect captured
checkStatus(kind) ==
    /\ platform # "web"
    /\ ~playing[kind]
    /\ CASE kind = "lesson" ->
                /\ rendered.audio.isPlaying
                /\ ~rendered.audio.isLoadingAudio
                /\ audio' = [audio EXCEPT !.isPlaying = FALSE]
         [] kind = "word" ->
                /\ rendered.audio.playingWord # NoWord
                /\ rendered.audio.wordAudioUri # NoUri
                /\ audio' = [audio EXCEPT !.playingWord = NoWord]
         [] kind = "paragraph" ->
                /\ rendered.audio.playingParagraphIndex # NoIndex
                /\ rendered.audio.paragraphAudioUri # NoUri
                /\ audio' = [audio EXCEPT !.playingParagraphIndex = NoIndex,
                                          !.isLoadingParagraphAudio = FALSE]
    /\ UNCHANGED <<globalState, rendered, extendVars, platform, playing,
                   playCalls, audioCache, fetched, otherVars>>

\* --------------------------------------------------- GenerateLessonScreen
GenerateFailed == "Failed to generate lesson"

\* the topics of the route the screen is opened with
RouteTopics == {"Travel", ""}

\* the outcomes of the completion the screen's requests are answered with:
\* one text that parses, one that does not, and an error thrown upstream
SampleCompletions ==
    {[thrown |-> FALSE,
      content |-> <<"PARAGRAPH:", "x", "WORDS:", "[", "]">>],
     [thrown |-> FALSE, content |-> <<"x">>],
     [thrown |-> TRUE, status |-> 429, message |-> ""]}

\* the messages of the errors apiRequest rejects with
RequestErrors == {"", "Network request failed"}

NoResponse == [status |-> 0]

\* generateLesson up to its await
generateLesson(topic) ==
    IF globalState.apiKey = ""
    THEN /\ status' = "no-key"
         /\ UNCHANGED <<globalState, generateCalls>>
    ELSE /\ Len(generateCalls) < MaxGenerateCalls
         /\ status' = "loading"
         /\ globalState' = setError(setIsLoading(globalState, TRUE), NoError)
         /\ generateCalls' = Append(generateCalls,
                                    [topic |-> topic, mounted |-> TRUE,
                                     response |-> NoResponse])

\* the screen is opened for a topic: a screen that was open is unmounted, and
\* the effect of the new one calls generateLesson when a key is set
MountGenerateLesson(topic) ==
    /\ \/ /\ globalState.apiKey = ""
          /\ status' = "no-key"
          /\ generateCalls' = [i \in 1..Len(generateCalls) |->
                                  [generateCalls[i] EXCEPT !.mounted = FALSE]]
          /\ UNCHANGED globalState
       \/ /\ globalState.apiKey # ""
          /\ Len(generateCalls) < MaxGenerateCalls
          /\ status' = "loading"
          /\ globalState' = setError(setIsLoading(globalState, TRUE), NoError)
          /\ generateCalls' =
                Append([i \in 1..Len(generateCalls) |->
                           [generateCalls[i] EXCEPT !.mounted = FALSE]],
                       [topic |-> topic, mounted |-> TRUE,
                        response |-> NoResponse])
    /\ UNCHANGED <<screenVars, serverVars, savedWords>>

\* the retry button of the error view, for the topic of the open screen
HandleRetry(topic) ==
    /\ status = "error"
    /\ generateLesson(topic)
    /\ UNCHANGED <<screenVars, serverVars, savedWords>>

\* the server handles the request of a call
ServeGenerateLesson(i, outcome) ==
    /\ generateCalls[i].response = NoResponse
    /\ LET body == [topic |-> generateCalls[i].topic, tags |-> Absent]
           result == generateLessonRoute(body, envApiKey, outcome)
       IN /\ served' = Exchange("/api/generate-lesson", body, result, outcome)
          /\ generateCalls' = [generateCalls EXCEPT ![i].response =
                                                      result.response]
    /\ UNCHANGED <<globalState, screenVars, status, envApiKey, savedWords>>

\* variant: the catch block also drops the lesson on display
generateFailed_clearsLesson(st, message) ==
    setIsLoading(setError(clearLesson(st),
                          IF message # "" THEN message ELSE GenerateFailed),
                 FALSE)

\* the catch block of generateLesson
generateFailed(st, message) ==
    setIsLoading(setError(st, IF message # "" THEN message
                              ELSE GenerateFailed),
                 FALSE)

\* the lesson the screen builds from the data of the response
generatedLesson(topic, data) ==
    [id |-> Absent, topic |-> topic,
     paragraph |-> data.paragraph, words |-> data.words]

\* apiRequest rejects: generateLesson goes on in its catch block
GenerateThrows(i, message) ==
    /\ i \in 1..Len(generateCalls)
    /\ generateCalls[i].response.status # 200
    /\ globalState' = generateFailed(globalState, message)
    /\ status' = IF generateCalls[i].mounted THEN "error" ELSE status
    /\ generateCalls' = RemoveAt(generateCalls, i)
    /\ UNCHANGED <<screenVars, serverVars, savedWords>>

\* the response arrives: generateLesson goes on after its await
GenerateComplete(i) ==
    /\ i \in 1..Len(generateCalls)
    /\ generateCalls[i].response # NoResponse
    /\ LET call == generateCalls[i]
           data == call.response.body
       IN IF call.response.status = 200
          THEN /\ globalState' =
                     setIsLoading(
                        addRecentTopic(
                           setCurrentLesson(globalState,
                                            generatedLesson(call.topic, data)),
                           call.topic),
                        FALSE)
               /\ UNCHANGED status
          ELSE /\ globalState' =
                     generateFailed(globalState,
                                    IF "message" \in DOMAIN data
                                    THEN data.message ELSE "")
               /\ status' = IF call.mounted THEN "error" ELSE status
    /\ generateCalls' = RemoveAt(generateCalls, i)
    /\ UNCHANGED <<screenVars, serverVars, savedWords>>

\* ------------------------------------------------------------ the server
\* a request to /api/generate-lesson is handled, the completion ending as
\* outcome when the handler gets to it
PostGenerateLesson(body, outcome) ==
    /\ served = NoExchange
    /\ LET result == generateLessonRoute(body, envApiKey, outcome)
       IN served' = Exchange("/api/generate-lesson", body, result, outcome)
    /\ UNCHANGED <<globalState, screenVars, generateVars, envApiKey, savedWords>>

\* a request to /api/text-to-speech is handled
PostTextToSpeech(body, outcome) ==
    /\ served = NoExchange
    /\ LET result == textToSpeechRoute(body, envApiKey, outcome)
       IN served' = Exchange("/api/text-to-speech", body, result, outcome)
    /\ UNCHANGED <<globalState, screenVars, generateVars, envApiKey, savedWords>>

\* the response is on its way and the handler has returned
ResponseSent ==
    /\ served # NoExchange
    /\ served' = NoExchange
    /\ UNCHANGED <<globalState, screenVars, generateVars, envApiKey, savedWords>>

\* ------------------------------------------------------------ saved words
\* the words the screens hand to toggleSavedWord: two entries share the word
\* "hello", and "Hello" differs from it in case only
WordInputs ==
    {[word |-> "hello", phonetic |-> "/h@'l@U/"],
     [word |-> "hello", phonetic |-> "/hE'l@U/"],
     [word |-> "Hello", phonetic |-> "/h@'l@U/"],
     [word |-> "world", phonetic |-> "/w3:ld/"],
     [word |-> "tea", phonetic |-> "/ti:/"]}

\* isSavedWord(word): an entry of the list has the word
isSavedWord(saved, word) == \E i \in 1..Len(saved) : saved[i].word = word

\* the list without the entries of a word
RECURSIVE withoutWord(_, _)
withoutWord(saved, word) ==
    IF saved = <<>>
    THEN <<>>
    ELSE IF saved[1].word = word
    THEN withoutWord(Tail(saved), word)
    ELSE <<saved[1]>> \o withoutWord(Tail(saved), word)

\* variant: the entry is added whether or not the word is saved
toggleSavedWord_alwaysAdds(saved, entry) == Append(saved, entry)

\* toggleSavedWord(entry): a saved word is removed, any other word is added
toggleSavedWord(saved, entry) ==
    IF isSavedWord(saved, entry.word)
    THEN withoutWord(saved, entry.word)
    ELSE Append(saved, entry)

\* removeSavedWord(word)
removeSavedWord(saved, word) == withoutWord(saved, word)

\* the favourite button of a word, on the word list and on the saved words
ToggleSavedWord(entry) ==
    /\ savedWords' = toggleSavedWord(savedWords, entry)
    /\ globalState' = notifyListeners(globalState)
    /\ UNCHANGED <<screenVars, generateVars, serverVars>>

RemoveSavedWord(word) ==
    /\ savedWords' = removeSavedWord(savedWords, word)
    /\ globalState' = notifyListeners(globalState)
    /\ UNCHANGED <<screenVars, generateVars, serverVars>>

\* ------------------------------------------------------- specifications
\* the store under the calls of its interface
NextStore ==
    \/ \E lesson \in InputLessons \cup {Null} : SetCurrentLesson(lesson)
    \/ \E lesson \in InputLessons : AddNewLessonToCache(lesson)
    \/ \E index \in -1..MaxLessons : SwitchToLesson(index)
    \/ \E section \in Sections : AddSection(section)
    \/ ClearLesson

SpecStore == Init /\ [][NextStore]_vars

\* the store under every mutation of its interface
NextStoreAll ==
    \/ NextStore
    \/ \E topic \in {"Travel", "travel"} : AddRecentTopic(topic)
    \/ \E key \in {"", "key"} : SetApiKey(key)
    \/ \E voice \in Voices : SetSelectedVoice(voice)
    \/ \E loading \in BOOLEAN : SetIsLoading(loading)
    \/ \E extending \in BOOLEAN : SetIsExtending(extending)
    \/ \E error \in {NoError, "msg"} : SetError(error)

SpecStoreAll == Init /\ [][NextStoreAll]_vars

\* addRecentTopic on a list of any length up to the limit
NextTopics ==
    \E topic \in RecentTopicNames :
        globalState.version < MaxVersion /\ AddRecentTopic(topic)

SpecTopics == InitTopics /\ [][NextTopics]_vars

\* the lesson screen: the extension protocol, while other screens set, switch
\* and clear the current lesson
Next ==
    \/ SetCurrentLesson(lessonA)
    \/ AddNewLessonToCache(lessonB)
    \/ \E index \in 0..(MaxLessons - 1) : SwitchToLesson(index)
    \/ ClearLesson
    \/ Render
    \/ HandleExtendLesson
    \/ \E i \in 1..Len(extendCalls), resp \in Responses : ExtendComplete(i, resp)
    \/ SuccessTimer

Spec == Init /\ [][Next]_vars

\* the responses arrive eventually, and React re-renders after a state change
Complete ==
    \E i \in 1..Len(extendCalls), resp \in Responses : ExtendComplete(i, resp)

SpecLive == Init /\ [][Next]_vars /\ WF_vars(Complete) /\ WF_vars(Render)

\* a timer that was set fires after its delay
SpecTimerLive == Init /\ [][Next]_vars /\ WF_vars(SuccessTimer)

\* the lesson screen: playback of a generated lesson
NextPlay ==
    \/ SetCurrentLesson(lessonA)
    \/ Render
    \/ HandlePlayAudio
    \/ \E word \in chips(s1) : HandlePlayWordAudio(word)
    \/ \E index \in 0..(MaxSections - 1) : HandlePlayParagraphAudio(index)
    \/ \E i \in 1..Len(playCalls), outcome \in SpeechOutcomes, started \in BOOLEAN :
          SpeechResponse(i, outcome, started)
    \/ \E i \in 1..Len(playCalls), outcome \in ReaderOutcomes :
          ReaderDone(i, outcome)
    \/ \E kind \in Slots, failed \in BOOLEAN : AudioStops(kind, failed)
    \/ \E kind \in Slots : PlaybackEnds(kind)
    \/ \E kind \in Slots : checkStatus(kind)

SpecPlay == InitPlay /\ [][NextPlay]_vars

\* every request to the speech endpoint is answered, every file reader and
\* write ends, React re-renders after a state change, audio that plays comes
\* to its end, and the checkStatus intervals tick
Respond(i) ==
    /\ i <= Len(playCalls)
    /\ \E outcome \in SpeechOutcomes, started \in BOOLEAN :
          SpeechResponse(i, outcome, started)

ReaderEnds(i) ==
    /\ i <= Len(playCalls)
    /\ \E outcome \in ReaderOutcomes : ReaderDone(i, outcome)

PlayFairness ==
    /\ WF_vars(Render)
    /\ \A i \in 1..MaxPlayCalls :
          WF_vars(Respond(i)) /\ WF_vars(ReaderEnds(i))
    /\ \A kind \in Slots :
          /\ WF_vars(\E failed \in BOOLEAN : AudioStops(kind, failed))
          /\ WF_vars(PlaybackEnds(kind))
          /\ WF_vars(checkStatus(kind))

SpecPlayLive == InitPlay /\ [][NextPlay]_vars /\ PlayFairness

\* the lesson screen: word playback while the settings screen changes the
\* voice
NextVoice ==
    \/ SetCurrentLesson(lessonA)
    \/ \E voice \in Voices : SetSelectedVoice(voice)
    \/ Render
    \/ \E word \in chips(s1) : HandlePlayWordAudio(word)
    \/ \E i \in 1..Len(playCalls), outcome \in SpeechOutcomes, started \in BOOLEAN :
          SpeechResponse(i, outcome, started)
    \/ \E i \in 1..Len(playCalls), outcome \in ReaderOutcomes :
          ReaderDone(i, outcome)
    \/ \E failed \in BOOLEAN : AudioStops("word", failed)
    \/ PlaybackEnds("word")
    \/ checkStatus("word")

SpecVoice == InitPlay /\ [][NextVoice]_vars

\* lesson generation: the screen, the key of the settings and the server
NextGenerate ==
    \/ \E topic \in RouteTopics : MountGenerateLesson(topic)
    \/ \E topic \in RouteTopics : HandleRetry(topic)
    \/ \E i \in 1..Len(generateCalls), outcome \in SampleCompletions :
          ServeGenerateLesson(i, outcome)
    \/ \E i \in 1..Len(generateCalls), message \in RequestErrors :
          GenerateThrows(i, message)
    \/ \E i \in 1..Len(generateCalls) : GenerateComplete(i)
    \/ \E key \in {"", "key"} : SetApiKey(key)
    \/ SetCurrentLesson(lessonB)

SpecGenerate == InitServer /\ [][NextGenerate]_vars

\* the two routes of the server under requests of every shape
NextServer ==
    \/ /\ served = NoExchange
       /\ \E body \in LessonBodies,
             outcome \in UpstreamErrors \cup Completions :
             PostGenerateLesson(body, outcome)
    \/ /\ served = NoExchange
       /\ \E body \in SpeechBodies,
             outcome \in UpstreamErrors \cup SpeechResults :
             PostTextToSpeech(body, outcome)
    \/ ResponseSent

SpecServer == InitServer /\ [][NextServer]_vars

\* the saved words under the calls of the two screens that show them
NextSaved ==
    \/ \E entry \in WordInputs : ToggleSavedWord(entry)
    \/ \E entry \in WordInputs : RemoveSavedWord(entry.word)

SpecSaved == Init /\ [][NextSaved]_vars

\* word playback alone, with room for a second request while one is
\* outstanding, while the settings screen changes the voice
NextWords ==
    \/ SetCurrentLesson(lessonA)
    \/ \E voice \in Voices : SetSelectedVoice(voice)
    \/ Render
    \/ \E word \in chips(s1) : handlePlayWordAudio(word, MaxWordCalls)
    \/ \E i \in 1..Len(playCalls), outcome \in SpeechOutcomes, started \in BOOLEAN :
          SpeechResponse(i, outcome, started)
    \/ \E i \in 1..Len(playCalls), outcome \in ReaderOutcomes :
          ReaderDone(i, outcome)
    \/ \E failed \in BOOLEAN : AudioStops("word", failed)
    \/ PlaybackEnds("word")
    \/ checkStatus("word")

SpecWords == InitPlay /\ [][NextWords]_vars

\* ------------------------------------------------------------- the claims
currentLesson == globalState.currentLesson
lessonCache == globalState.lessonCache
currentList == lessonCache[toLowerCase(currentLesson.topic)]

\* an OK response that carries a paragraph and a words field
AcceptedResponse(resp) ==
    resp.kind = "response" /\ resp.ok /\ resp.paragraph # "" /\ resp.hasWords

\* an OK response with a non-empty paragraph and a non-empty word list
WellFormedResponse(resp) == AcceptedResponse(resp) /\ resp.words # <<>>

\* C1: while an extension is outstanding a second handleExtendLesson is
\* rejected, so at most one request to the extend endpoint is outstanding
C1_AtMostOneOutstanding == Len(extendCalls) <= 1

\* C2: when the response of an extension arrives and the current lesson is
\* not the lesson the extension was started for, the current lesson is left
\* as it is
C2_OtherLessonUntouched ==
    [][\A i \in 1..Len(extendCalls), resp \in Responses :
          (/\ ExtendComplete(i, resp)
           /\ currentLesson # Null
           /\ currentLesson.id # extendCalls[i].id)
          => globalState'.currentLesson = currentLesson]_vars

\* C3: at most one of these is set: a word is playing (playingWord), a
\* paragraph is playing (playingParagraphIndex), the whole lesson is loading
\* or playing (isLoadingAudio, isPlaying)
C3_OnePlaybackAtATime ==
    Cardinality({k \in Slots :
                    \/ k = "word" /\ audio.playingWord # NoWord
                    \/ k = "paragraph" /\ audio.playingParagraphIndex # NoIndex
                    \/ k = "lesson" /\ (audio.isLoadingAudio \/ audio.isPlaying)})
        <= 1

\* C4: whenever currentLesson is non-null, the cached lesson at
\* currentLessonIndex under the lowercased topic has the id of currentLesson
C4_CacheLessonConsistency ==
    currentLesson # Null =>
        /\ globalState.currentLessonIndex + 1 \in 1..Len(currentList)
        /\ currentList[globalState.currentLessonIndex + 1].id = currentLesson.id

C4_Witness ==
    /\ currentLesson # Null
    /\ globalState.currentLessonIndex = 1
    /\ Len(currentLesson.sections) = 2
    /\ currentList[1].id # currentLesson.id

\* C5: the cache entry at the current index has the sections of the current
\* lesson
C5_CacheSectionsInStep ==
    currentLesson # Null =>
        currentList[globalState.currentLessonIndex + 1].sections =
            currentLesson.sections

\* C6: a successful extension appends exactly the fetched section to the
\* sections of the current lesson, which are otherwise unchanged
C6_AppendExactlyOne ==
    [][\A i \in 1..Len(extendCalls), resp \in Responses :
          (/\ ExtendComplete(i, resp)
           /\ AcceptedResponse(resp)
           /\ currentLesson # Null)
          => /\ globalState'.currentLesson.id = currentLesson.id
             /\ globalState'.currentLesson.sections =
                    currentLesson.sections \o
                        <<[paragraph |-> resp.paragraph, words |-> resp.words]>>]_vars

C6_Witness ==
    /\ extendSuccess
    /\ currentLesson # Null
    /\ currentLesson.sections = <<s1, s2>>

\* C7: when clearLesson ran while the request was outstanding and the lesson
\* is still null when the response arrives, the completion leaves
\* currentLesson null and the lesson cache as it was
C7_ClearedCompletionIsNoOp ==
    [][\A i \in 1..Len(extendCalls), resp \in Responses :
          (/\ ExtendComplete(i, resp)
           /\ extendCalls[i].cleared
           /\ currentLesson = Null)
          => /\ globalState'.currentLesson = Null
             /\ globalState'.lessonCache = lessonCache]_vars

\* the call that completed last had been cleared, and it completed with
\* success: no error was recorded and nothing is outstanding
C7_Witness ==
    /\ lastCompleted.cleared
    /\ extendCalls = <<>>
    /\ extendSuccess
    /\ extendError = NoError
    /\ currentLesson = Null
    /\ \E k \in TopicKeys : lessonCache[k] # <<>>

\* C8: every started extension is followed by a state in which isExtending
\* and the local flag of the screen are both cleared
C8_ExtendingEventuallyCleared ==
    (Len(extendCalls) > 0) ~> (~globalState.isExtending /\ ~isExtendingLocal)

C8_Witness ==
    /\ extendCalls = <<>>
    /\ extendError # NoError
    /\ ~globalState.isExtending
    /\ ~isExtendingLocal
    /\ ~rendered.isExtending

\* C9: an OK response without a non-empty paragraph and a non-empty word list
\* reports an error and leaves the lesson and the cache unchanged
C9_InvalidResponseRejected ==
    [][\A i \in 1..Len(extendCalls), resp \in Responses :
          (/\ ExtendComplete(i, resp)
           /\ resp.kind = "response" /\ resp.ok
           /\ ~WellFormedResponse(resp))
          => /\ extendError' # NoError
             /\ globalState'.currentLesson = currentLesson
             /\ globalState'.lessonCache = lessonCache]_vars

\* C10: a failed extension (thrown error, non-OK response, invalid data)
\* records the message of the collaborator or else a generic message, and
\* leaves the lesson and the cache unchanged
C10_FailureLeavesLesson ==
    [][\A i \in 1..Len(extendCalls), resp \in Responses :
          (/\ ExtendComplete(i, resp)
           /\ ~WellFormedResponse(resp))
          => /\ extendError' \in {resp.message, GenericExtendError,
                                  InvalidDataError} \ {""}
             /\ resp.message # "" /\ (resp.kind = "throw" \/ ~resp.ok)
                    => extendError' = resp.message
             /\ globalState'.currentLesson = currentLesson
             /\ globalState'.lessonCache = lessonCache]_vars

\* C11: a play request for a word or a paragraph whose (text, voice) pair was
\* fetched before sends no request to the speech endpoint
C11_NoRefetch ==
    [][Len(playCalls') > Len(playCalls) =>
          LET call == playCalls'[Len(playCalls')]
          IN call.kind \in {"word", "paragraph"} =>
                getAudioCacheKey(call.text, call.voice) \notin fetched]_vars

C13_VoiceChangeResetsCache ==
    [][\A voice \in Voices :
          (SetSelectedVoice(voice) /\ voice # globalState.selectedVoice) =>
             \A e \in audioCache' : e.key.voice # globalState.selectedVoice]_vars

\* the playing indicators of the three kinds of play request
wordIndicator == audio.playingWord # NoWord
paragraphIndicator ==
    audio.playingParagraphIndex # NoIndex \/ audio.isLoadingParagraphAudio
lessonIndicator == audio.isLoadingAudio \/ audio.isPlaying

\* C14: an accepted play request, whether its synthesis or its playback
\* fails or succeeds, is followed by a state in which its playing indicator
\* is cleared
C14_IndicatorEventuallyCleared ==
    /\ wordIndicator ~> ~wordIndicator
    /\ paragraphIndicator ~> ~paragraphIndicator
    /\ lessonIndicator ~> ~lessonIndicator

\* nothing is outstanding or playing, every indicator is cleared and the
\* screen shows it, after a lesson request that failed
C14_Witness ==
    /\ playCalls = <<>>
    /\ audio.audioError # NoError
    /\ ~wordIndicator /\ ~paragraphIndicator /\ ~lessonIndicator
    /\ rendered.audio = audio

\* C15: whenever currentLesson is non-null, currentLessonIndex is an index of
\* the cache list of its topic: 0 <= currentLessonIndex < length
C15_IndexInRange ==
    currentLesson # Null =>
        /\ 0 <= globalState.currentLessonIndex
        /\ globalState.currentLessonIndex < Len(currentList)

\* the last entry of a full list is current, after an earlier entry of the
\* same id
C15_Witness ==
    /\ currentLesson # Null
    /\ Len(currentList) = MaxLessons
    /\ globalState.currentLessonIndex = MaxLessons - 1
    /\ currentList[1].id = currentLesson.id

recentTopics == globalState.recentTopics
Range(seq) == {seq[i] : i \in 1..Len(seq)}
NoDuplicates(seq) ==
    \A i, j \in 1..Len(seq) : seq[i] = seq[j] => i = j
Min(a, b) == IF a < b THEN a ELSE b

\* C16: after every addRecentTopic the list has at most ten entries, no
\* string twice, and as many entries as distinct topics were added, up to ten
C16_RecentTopicsBounded ==
    [][/\ Len(recentTopics') <= RecentLimit
       /\ NoDuplicates(recentTopics')
       /\ Len(recentTopics') =
              Min(RecentLimit,
                  Cardinality(Range(recentTopics) \cup {recentTopics'[1]}))]_vars

\* two more topics were added to the list of ten distinct topics
C16_Witness ==
    /\ Len(recentTopics) = RecentLimit
    /\ recentTopics[1] = "Movies"
    /\ recentTopics[2] = "History"
    /\ recentTopics[RecentLimit] = "Business"

\* the position in seq of the k-th entry that is not x
KeptAt(seq, x, k) ==
    CHOOSE j \in 1..Len(seq) :
        /\ seq[j] # x
        /\ Cardinality({m \in 1..j : seq[m] # x}) = k

\* C17: addRecentTopic(t) puts t first, removes the earlier entry that is
\* exactly t (an entry differing in letter case stays), keeps the others in
\* their order and drops what is beyond the tenth entry
C17_MoveToFront ==
    [][\A topic \in RecentTopicNames :
          AddRecentTopic(topic) =>
             LET kept == Cardinality({m \in 1..Len(recentTopics) :
                                         recentTopics[m] # topic})
             IN /\ recentTopics'[1] = topic
                /\ Len(recentTopics') = Min(RecentLimit, 1 + kept)
                /\ \A i \in 2..Len(recentTopics') :
                      recentTopics'[i] =
                          recentTopics[KeptAt(recentTopics, topic, i - 1)]]_vars

\* "Travel" was moved to the front of the full list, "travel" stayed
C17_Witness ==
    /\ Len(recentTopics) = RecentLimit
    /\ recentTopics[1] = "Travel"
    /\ recentTopics[2] = "Nature"
    /\ recentTopics[RecentLimit] = "travel"

C19_SetCurrentUpserts ==
    [][\A lesson \in InputLessons :
          SetCurrentLesson(lesson) =>
             LET key == toLowerCase(lesson.topic)
                 list == lessonCache[key]
                 after == globalState'.lessonCache[key]
                 index == globalState'.currentLessonIndex
             IN /\ globalState'.currentLesson = lesson
                /\ \A k \in TopicKeys \ {key} :
                      globalState'.lessonCache[k] = lessonCache[k]
                /\ IF \E j \in 1..Len(list) : list[j].id = lesson.id
                   THEN /\ Len(after) = Len(list)
                        /\ index + 1 \in 1..Len(list)
                        /\ list[index + 1].id = lesson.id
                        /\ after[index + 1] = lesson
                        /\ \A j \in 1..Len(list) :
                              j # index + 1 => after[j] = list[j]
                   ELSE /\ after = Append(list, lesson)
                        /\ index = Len(after) - 1]_vars

\* the first of two entries was replaced by the lesson as generated, after
\* the second had been extended
C19_Witness ==
    /\ currentLesson = lessonA
    /\ globalState.currentLessonIndex = 0
    /\ Len(currentList) = 2
    /\ currentList[1] = lessonA
    /\ currentList[2].id = "l2"
    /\ Len(currentList[2].sections) = 2

\* C20: addNewLessonToCache(lesson) appends the lesson to the list of its
\* topic, makes it current with the new last index, and leaves every entry
\* that was in the cache where it was
C20_AppendOnly ==
    [][\A lesson \in InputLessons :
          AddNewLessonToCache(lesson) =>
             LET key == toLowerCase(lesson.topic)
                 list == lessonCache[key]
                 after == globalState'.lessonCache[key]
             IN /\ after = Append(list, lesson)
                /\ globalState'.currentLesson = lesson
                /\ globalState'.currentLessonIndex = Len(after) - 1
                /\ \A k \in TopicKeys \ {key} :
                      globalState'.lessonCache[k] = lessonCache[k]]_vars

\* the lesson was appended after an extended entry of the same id
C20_Witness ==
    /\ currentLesson = lessonB
    /\ globalState.currentLessonIndex = 1
    /\ Len(currentList) = 2
    /\ currentList[1].id = "l2"
    /\ Len(currentList[1].sections) = 2
    /\ currentList[2] = lessonB

\* C21: switchToLesson(index) leaves the whole store as it was, the version
\* included, when there is no current lesson or the index is outside the list
\* of the current topic; otherwise the entry at the index becomes current,
\* the index is recorded and the cache keeps its content
C21_SwitchFrame ==
    [][\A index \in -1..MaxLessons :
          SwitchToLesson(index) =>
             IF currentLesson = Null \/ index < 0 \/ index >= Len(currentList)
             THEN globalState' = globalState
             ELSE /\ globalState'.currentLesson = currentList[index + 1]
                  /\ globalState'.currentLessonIndex = index
                  /\ globalState'.lessonCache = lessonCache]_vars

\* the first entry was selected again after a second lesson had been added:
\* the current lesson is the extended first entry, at index 0 of two
C21_Witness ==
    /\ currentLesson.id = "l1"
    /\ Len(currentLesson.sections) = 2
    /\ globalState.currentLessonIndex = 0
    /\ Len(currentList) = 2
    /\ currentList[1] = currentLesson
    /\ currentList[2] = lessonB

\* C22: clearLesson() sets currentLesson to null, the index to 0 and the
\* error to null, and leaves the cache, the recent topics, the voice and the
\* two loading flags as they were
C22_ClearFrame ==
    [][ClearLesson =>
          /\ globalState'.currentLesson = Null
          /\ globalState'.currentLessonIndex = 0
          /\ globalState'.error = NoError
          /\ globalState'.lessonCache = lessonCache
          /\ globalState'.recentTopics = recentTopics
          /\ globalState'.selectedVoice = globalState.selectedVoice
          /\ globalState'.isLoading = globalState.isLoading
          /\ globalState'.isExtending = globalState.isExtending]_vars

\* the lesson was cleared while both flags were set, with a second entry, a
\* recent topic and another voice on record
C22_Witness ==
    /\ currentLesson = Null
    /\ globalState.currentLessonIndex = 0
    /\ globalState.error = NoError
    /\ Len(lessonCache["travel"]) = 2
    /\ recentTopics = <<"travel", "Travel">>
    /\ globalState.selectedVoice = "echo"
    /\ globalState.isLoading
    /\ globalState.isExtending

\* C23: addSection(section) without a current lesson changes nothing:
\* currentLesson stays null, and the cache, the flags and the version are the
\* same after the call, so no listener is told
C23_AddSectionOnNull ==
    [][\A section \in Sections :
          (AddSection(section) /\ currentLesson = Null)
          => globalState' = globalState]_vars

\* no current lesson after a clear, while the cache holds the lesson that
\* was extended before: the call finds nothing to extend
C23_Witness ==
    /\ currentLesson = Null
    /\ Len(lessonCache["travel"]) = 1
    /\ lessonCache["travel"][1].id = "l1"
    /\ Len(lessonCache["travel"][1].sections) = 2

\* a is b, or b with sections appended at its end
IsPrefix(a, b) == Len(a) <= Len(b) /\ SubSeq(b, 1, Len(a)) = a

\* C24: whatever store operation runs, the sections recorded for a lesson id
\* change only by appending at the end: every cache entry keeps its id and
\* its sections as the first sections of the entry after the step, and so
\* does the current lesson while it is a lesson of the same id
C24_SectionsAppendOnly ==
    [][/\ \A k \in TopicKeys : \A j \in 1..Len(lessonCache[k]) :
             /\ j <= Len(globalState'.lessonCache[k])
             /\ globalState'.lessonCache[k][j].id = lessonCache[k][j].id
             /\ IsPrefix(lessonCache[k][j].sections,
                         globalState'.lessonCache[k][j].sections)
       /\ (/\ currentLesson # Null
           /\ globalState'.currentLesson # Null
           /\ globalState'.currentLesson.id = currentLesson.id)
          => IsPrefix(currentLesson.sections,
                      globalState'.currentLesson.sections)]_vars

\* C25: once a successful extension has set the success flag of the screen,
\* the flag is cleared again by the timer set with it, whatever the user does
\* or does not do
C25_SuccessEventuallyCleared == extendSuccess ~> ~extendSuccess

\* a section was appended by a successful extension, and the timer has fired
\* and cleared the flag
C25_Witness ==
    /\ currentLesson # Null
    /\ Len(currentLesson.sections) = 2
    /\ ~extendSuccess
    /\ successTimers = 0
    /\ extendCalls = <<>>
    /\ extendError = NoError

\* what a failed generation leaves of the store: the lesson, the cache and
\* the recent topics as they were, the message in the error field (the
\* default message when the error has none) and isLoading false
FailureRecorded(message) ==
    /\ globalState'.currentLesson = currentLesson
    /\ globalState'.lessonCache = lessonCache
    /\ globalState'.recentTopics = recentTopics
    /\ globalState'.error = IF message # "" THEN message ELSE GenerateFailed
    /\ ~globalState'.isLoading

\* C26: a lesson generation that fails, by a rejected request or by a
\* response that is not OK, leaves currentLesson, the cache and the recent
\* topics unchanged, records the message of the failure in the error field
\* and sets isLoading to false
C26_FailedGenerationFrame ==
    [][/\ \A i \in 1..Len(generateCalls), message \in RequestErrors :
             GenerateThrows(i, message) => FailureRecorded(message)
       /\ \A i \in 1..Len(generateCalls) :
             (/\ GenerateComplete(i)
              /\ generateCalls[i].response.status # 200)
             => FailureRecorded(generateCalls[i].response.body.message)]_vars

\* the generation failed on the rate limit of the upstream service while a
\* lesson was on display: the screen shows the error, the lesson is there
C26_Witness ==
    /\ status = "error"
    /\ generateCalls = <<>>
    /\ globalState.error = "Rate limit exceeded. Please try again later."
    /\ ~globalState.isLoading
    /\ currentLesson = lessonB
    /\ lessonCache["travel"] = <<lessonB>>

\* C27: a generate-lesson request without a topic and a text-to-speech
\* request without a text are answered with status 400, and the handler has
\* made no call to the upstream service
C27_RejectedBeforeUpstream ==
    /\ (/\ served.route = "/api/generate-lesson"
        /\ served.body.topic \in {Absent, ""})
       => /\ served.response.status = 400
          /\ served.upstream = NoUpstream
    /\ (/\ served.route = "/api/text-to-speech"
        /\ served.body.text \in {Absent, ""})
       => /\ served.response.status = 400
          /\ served.upstream = NoUpstream

\* a request without a topic was rejected by a server that holds a key
C27_Witness ==
    /\ served.route = "/api/generate-lesson"
    /\ served.body.topic = Absent
    /\ envApiKey = "sk-env"
    /\ served.response = json(400, "Topic is required")

\* C28: the voice the text-to-speech handler sends upstream is the voice of
\* the request when that is one of alloy, echo, fable, onyx, nova, shimmer,
\* and alloy for any other or missing voice
C28_VoiceSentUpstream ==
    (served.route = "/api/text-to-speech" /\ served.upstream # NoUpstream)
    => /\ served.upstream.voice
             \in {"alloy", "echo", "fable", "onyx", "nova", "shimmer"}
       /\ served.upstream.voice =
             IF served.body.voice
                   \in {"alloy", "echo", "fable", "onyx", "nova", "shimmer"}
             THEN served.body.voice
             ELSE "alloy"

\* a request for a voice that does not exist was synthesized with alloy
C28_Witness ==
    /\ served.route = "/api/text-to-speech"
    /\ served.body.voice = "robot"
    /\ served.upstream # NoUpstream
    /\ served.upstream.voice = "alloy"
    /\ served.response.status = 200

\* the text has a PARAGRAPH: marker with a WORDS: marker after it, and a
\* WORDS: marker followed by a bracketed list that JSON.parse accepts
HasParagraphAndWords(text) ==
    /\ \E i, j \in 1..Len(text) :
          i < j /\ text[i] = "PARAGRAPH:" /\ text[j] = "WORDS:"
    /\ \E k, e \in 1..Len(text) :
          /\ k < e
          /\ text[k] = "WORDS:"
          /\ JSONparse(SubSeq(text, k + 1, e)).ok

RetryMessages ==
    {"Failed to parse AI response. Please try again.",
     "Failed to parse vocabulary data. Please try again."}

\* C29: when the completion returns, generate-lesson answers with success
\* only if the text has a PARAGRAPH part and a WORDS part whose list parses;
\* every other text is answered with an error status and a message that
\* asks to try again
C29_SuccessOnlyWhenParsed ==
    (/\ served.route = "/api/generate-lesson"
     /\ served.upstream # NoUpstream
     /\ ~served.answer.thrown)
    => IF served.response.status = 200
       THEN HasParagraphAndWords(served.answer.content)
       ELSE /\ served.response.status >= 400
            /\ served.response.body.message \in RetryMessages

\* a completion with an empty paragraph and one word was answered with
\* success
C29_Witness ==
    /\ served.route = "/api/generate-lesson"
    /\ served.upstream # NoUpstream
    /\ ~served.answer.thrown
    /\ served.answer.content = <<"PARAGRAPH:", "WORDS:", "[", "w", "]">>
    /\ served.response.status = 200
    /\ served.response.body.words = [items |-> <<[word |-> "w"]>>]

\* C30: toggleSavedWord called twice with one word leaves the word saved or
\* not saved as it was, so that a word that was not saved is not saved after
\* the second call and isSavedWord is false for it; and savedWords never has
\* two entries with one word
C30_ToggleTwiceRestores ==
    /\ \A entry \in WordInputs :
          LET twice == toggleSavedWord(toggleSavedWord(savedWords, entry),
                                       entry)
          IN /\ isSavedWord(twice, entry.word)
                   = isSavedWord(savedWords, entry.word)
             /\ ~isSavedWord(savedWords, entry.word)
                   => /\ twice = savedWords
                      /\ isSavedWord(toggleSavedWord(savedWords, entry),
                                     entry.word)
    /\ \A i, j \in 1..Len(savedWords) :
          savedWords[i].word = savedWords[j].word => i = j

\* after two calls, the second of which took back what the first had saved,
\* no word is saved
C30_Witness ==
    /\ savedWords = <<>>
    /\ globalState.version = MaxVersion
    /\ \A entry \in WordInputs : ~isSavedWord(savedWords, entry.word)

\* C31: while the synthesis request of an accepted word play request is in
\* flight (the fetch, or on native the reading and writing of the file),
\* playingWord is the word of that request
C31_WordIndicatorHeld ==
    \A i \in 1..Len(playCalls) :
        playCalls[i].kind = "word"
        => audio.playingWord = playCalls[i].text[1]

\* C32: a word play request made while playingWord is set changes nothing:
\* no request is sent, no indicator and no cache entry changes, and the audio
\* that is playing goes on
C32_BusyRequestChangesNothing ==
    [][\A word \in chips(s1) :
          (HandlePlayWordAudio(word) /\ audio.playingWord # NoWord)
          => UNCHANGED <<audio, playing, playCalls, audioCache, fetched>>]_vars

\* the audio synthesized for exactly a word and a voice
AudioFor(word, voice) == [voice |-> voice, text |-> <<word>>]

\* C33: a word play request made with voice v is served from the cache only
\* with audio that was synthesized for exactly its word and v: when the cache
\* holds that audio it is the audio handed to the player, and when it does
\* not (the voice has changed since the word was cached) a request for the
\* word with voice v is sent
C33_CacheHitMatchesVoice ==
    [][\A word \in chips(s1) :
          HandlePlayWordAudio(word) =>
             LET v == rendered.selectedVoice
             IN IF \E e \in audioCache : e.audio = AudioFor(word, v)
                THEN /\ playCalls' = playCalls
                     /\ platform # "web"
                           => audio'.wordAudioUri = AudioFor(word, v)
                ELSE /\ Len(playCalls') = Len(playCalls) + 1
                     /\ playCalls'[Len(playCalls')].text = <<word>>
                     /\ playCalls'[Len(playCalls')].voice = v]_vars

\* native: the word is cached under both voices, and after the change to
\* echo the player was handed the audio synthesized with echo
C33_Witness ==
    /\ platform = "native"
    /\ globalState.selectedVoice = "echo"
    /\ rendered.selectedVoice = "echo"
    /\ \A voice \in Voices :
          \E e \in audioCache : e.audio = AudioFor("w1", voice)
    /\ audio.wordAudioUri = AudioFor("w1", "echo")
    /\ audio.playingWord = "w1"
    /\ playCalls = <<>>

\* C34: an entry of the audio cache stays as it is: whatever play request,
\* completion or voice change happens, every (text, voice) key that has a
\* value keeps that value
C34_CacheAppendOnly ==
    [][\A e \in audioCache : e \in audioCache']_vars

\* C35: a word synthesis that fails, by a response that is not OK or a
\* failed fetch, or on native by a failure of reading the audio or writing
\* its file, leaves the audio cache as it is; and a word request whose key
\* has no entry sends a request to the speech endpoint
C35_FailedSynthesisNotCached ==
    [][/\ \A i \in 1..Len(playCalls) :
             /\ \A outcome \in SpeechOutcomes \ {"ok"} :
                   (SpeechResponse(i, outcome, TRUE)
                    /\ playCalls[i].kind = "word")
                   => audioCache' = audioCache
             /\ \A outcome \in ReaderOutcomes \ {"saved"} :
                   (ReaderDone(i, outcome) /\ playCalls[i].kind = "word")
                   => audioCache' = audioCache
       /\ \A word \in chips(s1) :
             (/\ handlePlayWordAudio(word, MaxWordCalls)
              /\ \A e \in audioCache :
                    e.audio # AudioFor(word, rendered.selectedVoice))
             => /\ Len(playCalls') = Len(playCalls) + 1
                /\ playCalls'[Len(playCalls')].text = <<word>>]_vars

\* the request the screen last rendered was given up: its indicator is
\* cleared, no request is outstanding, nothing plays and the cache is empty
C35_Witness ==
    /\ rendered.audio.playingWord = "w1"
    /\ audio.playingWord = NoWord
    /\ playCalls = <<>>
    /\ audioCache = {}
    /\ ~playing["word"]

\* C36: the isExtending flag of the store is true exactly when an extension
\* request started by handleExtendLesson is outstanding
C36_ExtendingIffOutstanding ==
    globalState.isExtending <=> (Len(extendCalls) > 0)

\* C37: no store operation removes a lesson or a topic key from lessonCache:
\* the number of lessons cached under each key never decreases, and
\* setCurrentLesson(null) and clearLesson() leave the cache as it was
C37_CacheNeverShrinks ==
    [][/\ DOMAIN lessonCache \subseteq DOMAIN globalState'.lessonCache
       /\ \A k \in DOMAIN lessonCache :
             Len(globalState'.lessonCache[k]) >= Len(lessonCache[k])
       /\ (SetCurrentLesson(Null) \/ ClearLesson)
          => globalState'.lessonCache = lessonCache]_vars

\* no lesson is current while both generated lessons are still cached, the
\* first one with the section that was appended to it
C37_Witness ==
    /\ currentLesson = Null
    /\ Len(lessonCache["travel"]) = 2
    /\ lessonCache["travel"][1].id = "l1"
    /\ Len(lessonCache["travel"][1].sections) = 2
    /\ lessonCache["travel"][2] = lessonB

\* C38: every lesson of lessonCache is stored under the key that is its
\* lowercased topic, so the lessons whose topics differ in letter case only
\* are in one list, and switchToLesson reaches each of them from any other
C38_KeyedByLowercasedTopic ==
    /\ \A k \in DOMAIN lessonCache : \A i \in 1..Len(lessonCache[k]) :
          toLowerCase(lessonCache[k][i].topic) = k
    /\ currentLesson # Null =>
          \A k \in DOMAIN lessonCache : \A i \in 1..Len(lessonCache[k]) :
             toLowerCase(lessonCache[k][i].topic) = toLowerCase(currentLesson.topic)
             => switchToLesson(globalState, i - 1).currentLesson = lessonCache[k][i]

\* the lesson of topic "travel" is current and the lesson of topic "Travel"
\* is the first entry of the same list
C38_Witness ==
    /\ currentLesson = lessonB
    /\ globalState.currentLessonIndex = 1
    /\ lessonCache["travel"][1].topic = "Travel"
    /\ lessonCache["travel"][2].topic = "travel"

\* C39: after addSection extended the lesson at index i, switchToLesson(j) to
\* another lesson of the topic followed by switchToLesson(i) gives a current
\* lesson with the id and the sections it had before the switch, the appended
\* section included
C39_SwitchAwayAndBack ==
    [][\A section \in Sections :
          (AddSection(section) /\ currentLesson # Null) =>
             LET st == globalState'
                 i == st.currentLessonIndex
                 lessons == cacheGet(st, toLowerCase(st.currentLesson.topic))
             IN \A j \in 0..(Len(lessons) - 1) :
                   j # i =>
                      LET back == switchToLesson(switchToLesson(st, j), i)
                      IN /\ back.currentLesson.id = st.currentLesson.id
                         /\ back.currentLesson.sections =
                                st.currentLesson.sections]_vars

====
